---- MODULE Spec2Model ----
(***************************************************************************)
(* Model of refined_sets_wasm: IndexRing (index_ring.rs), a growable       *)
(* circular buffer of 24-bit values packed 3 bytes per slot, and           *)
(* HoleArray (hole_array.rs).                                              *)
(*                                                                         *)
(* A ring value is a record [data, head, len] as in the struct.  data is   *)
(* the byte vector (1-based here, 0-based in the source, so data[k] of the *)
(* source is data[k + 1] below).  Every method is an operator from a ring  *)
(* to a result record [data, head, len, ret]; the actions apply the        *)
(* operators to the state and record what was called.                      *)
(***************************************************************************)
EXTENDS Integers, Sequences, FiniteSets, TLC

\* ---- bounds of the model ------------------------------------------------
MaxInit == 2        \* largest argument of new(slots)
MaxSlots == 4       \* a push that grows is explored only up to this capacity
CodecSlots == 1     \* capacity of the ring the encoding is exercised on
MaxHoleLen == 3     \* a HoleArray is pushed to only below this many slots

\* the values pushed to a HoleArray<T>
HoleValues == {7, 8, 9}

\* ---- program constants --------------------------------------------------
MaxValue == 16777215      \* 0xFFFFFF, the assert of push

\* values handed to push: every byte pattern that matters (zero, distinct
\* bytes 0x010203, high bits 0x808080, all ones) and two values that
\* violate the precondition (0x1000000 and 0x1000001)
Values == {0, 66051, 8421504, 16777215}
BadValues == {16777216, 16777217}

\* bytes and the 24-bit values built from them, for the encoding
ByteSamples == {0, 129, 255}
CodecSamples ==
    {b0 + b1 * 256 + b2 * 65536 : b0 \in ByteSamples, b1 \in ByteSamples, b2 \in ByteSamples}

\* the result of a helper that panicked (integer-valued helpers)
PANIC == -1

VARIABLES data, head, len,   \* the fields of IndexRing
          fifo,              \* the abstract queue: values pushed and not yet removed
          op, arg, ret,      \* the last call, its argument and what it returned
          pre,               \* the ring (and abstract queue) before the last call
          hdata,             \* HoleArray.data, the vector of optional values
          hist               \* what was pushed to and marked in the HoleArray

vars == <<data, head, len, fifo, op, arg, ret, pre, hdata, hist>>

\* ---- return values ------------------------------------------------------
Unit == [kind |-> "unit", val |-> 0, arr |-> <<>>]
None == [kind |-> "none", val |-> 0, arr |-> <<>>]
Panic == [kind |-> "panic", val |-> 0, arr |-> <<>>]
Some(v) == [kind |-> "some", val |-> v, arr |-> <<>>]
Value(v) == [kind |-> "value", val |-> v, arr |-> <<>>]
Array(a) == [kind |-> "array", val |-> 0, arr |-> a]

Ring(d, h, l) == [data |-> d, head |-> h, len |-> l]
Res(d, h, l, r) == [data |-> d, head |-> h, len |-> l, ret |-> r]
RingOf(res) == Ring(res.data, res.head, res.len)

Zeros(n) == [k \in 1..n |-> 0]

\* ---- the 3-byte little-endian encoding ----------------------------------
\* [v & 0xFF, (v >> 8) & 0xFF, (v >> 16) & 0xFF], each cast to u8
\* mutation: the third byte is taken with a shift of 12 instead of 16
EncodeBadShift(v) == << v % 256, (v \div 256) % 256, (v \div 4096) % 256 >>

\* mutation: the bytes are stored most significant first
EncodeBigEndian(v) == << (v \div 65536) % 256, (v \div 256) % 256, v % 256 >>

Encode(v) == << v % 256, (v \div 256) % 256, (v \div 65536) % 256 >>

\* byte0 | byte1 << 8 | byte2 << 16 (the bytes are below 256, so the
\* bitwise or of the shifted bytes is their sum)
Decode(b0, b1, b2) == b0 + b1 * 256 + b2 * 65536

\* ---- IndexRing ----------------------------------------------------------
New(slots) == Ring(Zeros(slots * 3), 0, 0)

CapacityInSlots(r) == Len(r.data) \div 3

\* (slot_idx % capacity) * 3; the remainder by zero panics
SlotToByte(r, slot_idx) ==
    IF CapacityInSlots(r) = 0 THEN PANIC
    ELSE (slot_idx % CapacityInSlots(r)) * 3

\* reads of d[off], d[off + 1], d[off + 2]; an index at or beyond the
\* length panics
ReadSlot(d, off) ==
    IF off + 2 >= Len(d) THEN PANIC
    ELSE Decode(d[off + 1], d[off + 2], d[off + 3])

\* the three byte stores d[off], d[off + 1], d[off + 2] in order; a store
\* at or beyond the length panics and keeps the stores made before it
WriteSlot(d, off, v) ==
    LET b == Encode(v)
        d1 == IF off < Len(d) THEN [d EXCEPT ![off + 1] = b[1]] ELSE d
        d2 == IF off + 1 < Len(d) THEN [d1 EXCEPT ![off + 2] = b[2]] ELSE d1
        d3 == IF off + 2 < Len(d) THEN [d2 EXCEPT ![off + 3] = b[3]] ELSE d2
    IN  [ok |-> off + 2 < Len(d), data |-> d3]

Get(r, index) ==
    IF ~(index < r.len) THEN PANIC
    ELSE IF CapacityInSlots(r) = 0 THEN PANIC
    ELSE LET slot == (r.head + index) % CapacityInSlots(r)
             off == slot * 3
         IN  ReadSlot(r.data, off)

\* the loop "for i in 0..self.len" of push and compact, from index i on:
\* new_data[i * 3 ..] = encode(get(i))
RECURSIVE CopyInOrder(_, _, _)
CopyInOrder(r, new_data, i) ==
    IF i >= r.len THEN [ok |-> TRUE, data |-> new_data]
    ELSE LET v == Get(r, i)
         IN  IF v = PANIC THEN [ok |-> FALSE, data |-> new_data]
             ELSE LET w == WriteSlot(new_data, i * 3, v)
                  IN  IF ~w.ok THEN w
                      ELSE CopyInOrder(r, w.data, i + 1)

Max(a, b) == IF a >= b THEN a ELSE b

\* mutation: the resize copies the bytes in physical order (slot k of the
\* old storage to slot k of the new one) instead of logical order
GrowPhysical(r) ==
    LET new_slots == Max(CapacityInSlots(r), 1) * 2
    IN  [ok |-> TRUE,
         ring |-> Ring(r.data \o Zeros(new_slots * 3 - Len(r.data)), 0, r.len)]

\* mutation: the new capacity is capacity * 2, without max(capacity, 1)
GrowNoMax(r) ==
    LET new_slots == CapacityInSlots(r) * 2
        c == CopyInOrder(r, Zeros(new_slots * 3), 0)
    IN  [ok |-> c.ok, ring |-> IF c.ok THEN Ring(c.data, 0, r.len) ELSE r]

\* the resize branch of push: the ring after it, or a panic inside it
Grow(r) ==
    LET new_slots == Max(CapacityInSlots(r), 1) * 2
        c == CopyInOrder(r, Zeros(new_slots * 3), 0)
    IN  [ok |-> c.ok, ring |-> IF c.ok THEN Ring(c.data, 0, r.len) ELSE r]

\* mutation: the tail slot is len % capacity, forgetting head
PushNoHead(r, value) ==
    IF ~(value <= MaxValue) THEN Res(r.data, r.head, r.len, Panic)
    ELSE LET g == IF r.len = CapacityInSlots(r) THEN Grow(r)
                  ELSE [ok |-> TRUE, ring |-> r]
             s == g.ring
         IN  IF ~g.ok THEN Res(s.data, s.head, s.len, Panic)
             ELSE IF CapacityInSlots(s) = 0 THEN Res(s.data, s.head, s.len, Panic)
             ELSE LET tail_slot == s.len % CapacityInSlots(s)
                      byte_off == SlotToByte(s, tail_slot)
                      w == WriteSlot(s.data, byte_off, value)
                  IN  IF ~w.ok THEN Res(w.data, s.head, s.len, Panic)
                      ELSE Res(w.data, s.head, s.len + 1, Unit)

\* mutation: the assert on the value comes after the resize
PushLateAssert(r, value) ==
    LET g == IF r.len = CapacityInSlots(r) THEN Grow(r)
             ELSE [ok |-> TRUE, ring |-> r]
        s == g.ring
    IN  IF ~g.ok THEN Res(s.data, s.head, s.len, Panic)
        ELSE IF ~(value <= MaxValue) THEN Res(s.data, s.head, s.len, Panic)
        ELSE IF CapacityInSlots(s) = 0 THEN Res(s.data, s.head, s.len, Panic)
        ELSE LET tail_slot == (s.head + s.len) % CapacityInSlots(s)
                 byte_off == SlotToByte(s, tail_slot)
                 w == WriteSlot(s.data, byte_off, value)
             IN  IF ~w.ok THEN Res(w.data, s.head, s.len, Panic)
                 ELSE Res(w.data, s.head, s.len + 1, Unit)

Push(r, value) ==
    IF ~(value <= MaxValue) THEN Res(r.data, r.head, r.len, Panic)
    ELSE LET g == IF r.len = CapacityInSlots(r) THEN Grow(r)
                  ELSE [ok |-> TRUE, ring |-> r]
             s == g.ring
         IN  IF ~g.ok THEN Res(s.data, s.head, s.len, Panic)
             ELSE IF CapacityInSlots(s) = 0 THEN Res(s.data, s.head, s.len, Panic)
             ELSE LET tail_slot == (s.head + s.len) % CapacityInSlots(s)
                      byte_off == SlotToByte(s, tail_slot)
                      w == WriteSlot(s.data, byte_off, value)
                  IN  IF ~w.ok THEN Res(w.data, s.head, s.len, Panic)
                      ELSE Res(w.data, s.head, s.len + 1, Unit)

\* mutation: no early return on the empty ring
ShiftNoEmptyCheck(r) ==
    LET byte_off == SlotToByte(r, r.head)
        val == IF byte_off = PANIC THEN PANIC ELSE ReadSlot(r.data, byte_off)
    IN  IF val = PANIC THEN Res(r.data, r.head, r.len, Panic)
        ELSE Res(r.data, (r.head + 1) % CapacityInSlots(r), r.len - 1, Some(val))

\* mutation: head advances without the remainder by the capacity
ShiftNoWrap(r) ==
    IF r.len = 0 THEN Res(r.data, r.head, r.len, None)
    ELSE LET byte_off == SlotToByte(r, r.head)
             val == IF byte_off = PANIC THEN PANIC ELSE ReadSlot(r.data, byte_off)
         IN  IF val = PANIC THEN Res(r.data, r.head, r.len, Panic)
             ELSE Res(r.data, r.head + 1, r.len - 1, Some(val))

\* mutation: a removal that empties the ring releases the storage
ShiftRelease(r) ==
    IF r.len = 0 THEN Res(r.data, r.head, r.len, None)
    ELSE LET byte_off == SlotToByte(r, r.head)
             val == IF byte_off = PANIC THEN PANIC ELSE ReadSlot(r.data, byte_off)
         IN  IF val = PANIC THEN Res(r.data, r.head, r.len, Panic)
             ELSE IF r.len = 1 THEN Res(<<>>, 0, 0, Some(val))
             ELSE Res(r.data, (r.head + 1) % CapacityInSlots(r), r.len - 1, Some(val))

Shift(r) ==
    IF r.len = 0 THEN Res(r.data, r.head, r.len, None)
    ELSE LET byte_off == SlotToByte(r, r.head)
             val == IF byte_off = PANIC THEN PANIC ELSE ReadSlot(r.data, byte_off)
         IN  IF val = PANIC THEN Res(r.data, r.head, r.len, Panic)
             ELSE Res(r.data, (r.head + 1) % CapacityInSlots(r), r.len - 1, Some(val))

\* mutation: pop removes the newest element (the back) and keeps head
PopBack(r) ==
    IF r.len = 0 THEN Res(r.data, r.head, r.len, None)
    ELSE LET byte_off == SlotToByte(r, r.head + r.len - 1)
             val == IF byte_off = PANIC THEN PANIC ELSE ReadSlot(r.data, byte_off)
         IN  IF val = PANIC THEN Res(r.data, r.head, r.len, Panic)
             ELSE Res(r.data, r.head, r.len - 1, Some(val))

\* mutation: pop clears the bytes of the slot it removes
PopZeroing(r) ==
    IF r.len = 0 THEN Res(r.data, r.head, r.len, None)
    ELSE LET byte_off == SlotToByte(r, r.head)
             val == IF byte_off = PANIC THEN PANIC ELSE ReadSlot(r.data, byte_off)
         IN  IF val = PANIC THEN Res(r.data, r.head, r.len, Panic)
             ELSE Res(WriteSlot(r.data, byte_off, 0).data,
                      (r.head + 1) % CapacityInSlots(r), r.len - 1, Some(val))

Pop(r) ==
    IF r.len = 0 THEN Res(r.data, r.head, r.len, None)
    ELSE LET byte_off == SlotToByte(r, r.head)
             val == IF byte_off = PANIC THEN PANIC ELSE ReadSlot(r.data, byte_off)
         IN  IF val = PANIC THEN Res(r.data, r.head, r.len, Panic)
             ELSE Res(r.data, (r.head + 1) % CapacityInSlots(r), r.len - 1, Some(val))

LenOf(r) == r.len

\* mutation: the loop of to_array stops one element early
RECURSIVE ToArrayFromSkipLast(_, _, _)
ToArrayFromSkipLast(r, out, i) ==
    IF i >= r.len - 1 THEN [ok |-> TRUE, out |-> out]
    ELSE LET v == Get(r, i)
         IN  IF v = PANIC THEN [ok |-> FALSE, out |-> out]
             ELSE ToArrayFromSkipLast(r, Append(out, v), i + 1)

\* the loop of to_array from index i on, appended to out
RECURSIVE ToArrayFrom(_, _, _)
ToArrayFrom(r, out, i) ==
    IF i >= r.len THEN [ok |-> TRUE, out |-> out]
    ELSE LET v == Get(r, i)
         IN  IF v = PANIC THEN [ok |-> FALSE, out |-> out]
             ELSE ToArrayFrom(r, Append(out, v), i + 1)

ToArray(r) == ToArrayFrom(r, <<>>, 0)

\* mutation: compact keeps the first len slots of the storage as they are
CompactPhysical(r) ==
    Res(SubSeq(r.data, 1, r.len * 3), 0, r.len, Unit)

\* mutation: compact does not reset head
CompactKeepHead(r) ==
    LET new_slots == r.len
        c == CopyInOrder(r, Zeros(new_slots * 3), 0)
    IN  IF ~c.ok THEN Res(r.data, r.head, r.len, Panic)
        ELSE Res(c.data, r.head, r.len, Unit)

Compact(r) ==
    LET new_slots == r.len
        c == CopyInOrder(r, Zeros(new_slots * 3), 0)
    IN  IF ~c.ok THEN Res(r.data, r.head, r.len, Panic)
        ELSE Res(c.data, 0, r.len, Unit)

\* ---- HoleArray ----------------------------------------------------------
\* Option<T>: Some(value) is the one-element sequence, None the empty one
Occupied(value) == <<value>>
Hole == <<>>

HoleNew == <<>>

\* mutation: push stores the value in the first hole when there is one
HolePushFillsHole(d, value) ==
    IF \E k \in 1..Len(d) : d[k] = Hole
    THEN LET k == CHOOSE j \in 1..Len(d) :
                      d[j] = Hole /\ \A i \in 1..(j - 1) : d[i] /= Hole
         IN  [d EXCEPT ![k] = Occupied(value)]
    ELSE Append(d, Occupied(value))

HolePush(d, value) == Append(d, Occupied(value))

\* mutation: mark_hole removes the slot, so the slots after it move down
MarkHoleRemove(d, index) ==
    IF index < Len(d)
    THEN SubSeq(d, 1, index) \o SubSeq(d, index + 2, Len(d))
    ELSE d

\* mutation: an index beyond the end marks the last slot
MarkHoleClamp(d, index) ==
    IF index < Len(d) THEN [d EXCEPT ![index + 1] = Hole]
    ELSE IF Len(d) > 0 THEN [d EXCEPT ![Len(d)] = Hole]
    ELSE d

\* data.get_mut(index) is Some(slot) exactly when index < data.len()
MarkHole(d, index) ==
    IF index < Len(d) THEN [d EXCEPT ![index + 1] = Hole]
    ELSE d

IsSome(x) == x /= Hole

\* mutation: retain keeps the holes instead of the occupied slots
HoleCompactInverted(d) == SelectSeq(d, LAMBDA x : ~IsSome(x))

\* data.retain(|x| x.is_some())
HoleCompact(d) == SelectSeq(d, IsSome)

\* data.iter().filter_map(|x| x.as_ref()), collected
RECURSIVE IterValid(_)
IterValid(d) ==
    IF d = <<>> THEN <<>>
    ELSE IF IsSome(Head(d)) THEN <<Head(d)[1]>> \o IterValid(Tail(d))
    ELSE IterValid(Tail(d))

\* ---- the state machine --------------------------------------------------
Cur == Ring(data, head, len)
Snapshot ==
    [data |-> data, head |-> head, len |-> len, fifo |-> fifo, hdata |-> hdata]

\* nothing pushed, nothing marked, and only pushes followed by marks so far
NoHistory == [pushed |-> <<>>, marked |-> {}, ordered |-> TRUE]

\* the state after new(slots)
InitWith(slots) ==
    /\ data = New(slots).data
    /\ head = New(slots).head
    /\ len = New(slots).len
    /\ fifo = <<>>
    /\ op = "new"
    /\ arg = slots
    /\ ret = Unit
    /\ pre = [data |-> <<>>, head |-> 0, len |-> 0, fifo |-> <<>>, hdata |-> <<>>]
    /\ hdata = HoleNew
    /\ hist = NoHistory

Init == \E slots \in 0..MaxInit : InitWith(slots)

\* the state after a call whose result is res
Apply(name, a, res, q) ==
    /\ data' = res.data
    /\ head' = res.head
    /\ len' = res.len
    /\ ret' = res.ret
    /\ fifo' = q
    /\ op' = name
    /\ arg' = a
    /\ pre' = Snapshot
    /\ UNCHANGED <<hdata, hist>>

\* a push that would grow beyond MaxSlots is not explored
WithinBounds(value) ==
    \/ value > MaxValue
    \/ len < CapacityInSlots(Cur)
    \/ Max(CapacityInSlots(Cur), 1) * 2 <= MaxSlots

DoPush ==
    \E value \in Values \cup BadValues :
        /\ WithinBounds(value)
        /\ LET res == Push(Cur, value)
           IN  Apply("push", value, res,
                     IF res.ret = Unit THEN Append(fifo, value) ELSE fifo)

DoShift ==
    LET res == Shift(Cur)
    IN  Apply("shift", 0, res, IF res.ret.kind = "some" THEN Tail(fifo) ELSE fifo)

DoPop ==
    LET res == Pop(Cur)
    IN  Apply("pop", 0, res, IF res.ret.kind = "some" THEN Tail(fifo) ELSE fifo)

DoGet ==
    \E index \in 0..MaxSlots :
        LET v == Get(Cur, index)
        IN  Apply("get", index,
                  Res(data, head, len, IF v = PANIC THEN Panic ELSE Value(v)), fifo)

DoLen ==
    Apply("len", 0, Res(data, head, len, Value(LenOf(Cur))), fifo)

DoToArray ==
    LET a == ToArray(Cur)
    IN  Apply("to_array", 0,
              Res(data, head, len, IF a.ok THEN Array(a.out) ELSE Panic), fifo)

DoCompact ==
    Apply("compact", 0, Compact(Cur), fifo)

Next ==
    \/ DoPush
    \/ DoShift
    \/ DoPop
    \/ DoGet
    \/ DoLen
    \/ DoToArray
    \/ DoCompact

Spec == Init /\ [][Next]_vars

\* ---- the encoding on a wide sample of values ----------------------------
\* A ring of CodecSlots slots that is pushed to only while it is not full,
\* with values made of every combination of the bytes below.
CodecInit == InitWith(CodecSlots)

DoPushSample ==
    \E value \in CodecSamples :
        /\ len < CapacityInSlots(Cur)
        /\ LET res == Push(Cur, value)
           IN  Apply("push", value, res,
                     IF res.ret = Unit THEN Append(fifo, value) ELSE fifo)

CodecNext ==
    \/ DoPushSample
    \/ DoShift

SpecCodec == CodecInit /\ [][CodecNext]_vars

\* ---- the HoleArray state machine -----------------------------------------
HoleInit == InitWith(0)

\* the state after a call on the HoleArray
HoleApply(name, a, d, r, h) ==
    /\ hdata' = d
    /\ hist' = h
    /\ ret' = r
    /\ op' = name
    /\ arg' = a
    /\ pre' = Snapshot
    /\ UNCHANGED <<data, head, len, fifo>>

DoHolePush ==
    \E value \in HoleValues :
        /\ Len(hdata) < MaxHoleLen
        /\ HoleApply("hole_push", value, HolePush(hdata, value), Unit,
                     [pushed |-> Append(hist.pushed, value),
                      marked |-> hist.marked,
                      ordered |-> hist.ordered /\ hist.marked = {}])

DoMarkHole ==
    \E index \in 0..(MaxHoleLen + 1) :
        HoleApply("mark_hole", index, MarkHole(hdata, index), Unit,
                  [hist EXCEPT !.marked = @ \cup {index}])

DoHoleCompact ==
    HoleApply("hole_compact", 0, HoleCompact(hdata), Unit,
              [pushed |-> IterValid(hdata), marked |-> {}, ordered |-> FALSE])

DoIterValid ==
    HoleApply("iter_valid", 0, hdata, Array(IterValid(hdata)), hist)

HoleNext ==
    \/ DoHolePush
    \/ DoMarkHole
    \/ DoHoleCompact
    \/ DoIterValid

SpecHole == HoleInit /\ [][HoleNext]_vars

\* ---- helpers of the properties ------------------------------------------
\* to_array() of a ring as a plain sequence
ArrayOf(r) == ToArray(r).out
PreRing == Ring(pre.data, pre.head, pre.len)
PushedOk == op = "push" /\ arg <= MaxValue
Removal == op \in {"pop", "shift"}

\* C1: the ring refines a FIFO queue: in every reachable state to_array()
\* is the sequence of pushed values not yet removed, oldest first, and a
\* pop() or shift() on a non-empty ring returned the oldest value present.
C1_FifoRefinement ==
    /\ ToArray(Cur).ok
    /\ ArrayOf(Cur) = fifo
    /\ (Removal /\ Len(pre.fifo) > 0) => ret = Some(Head(pre.fifo))
    /\ (Removal /\ Len(pre.fifo) = 0) => ret = None
    /\ PushedOk => ret = Unit

\* a removal returned the oldest value of a ring whose contents wrap around
\* the end of storage after a growth
C1_Witness ==
    /\ Removal
    /\ ret = Some(66051)
    /\ fifo = <<8421504, 16777215, 0>>
    /\ head + len > CapacityInSlots(Cur)

\* C2: growth never loses or reorders elements: a push into a full ring
\* (also one whose head is not 0, and the capacity-0 ring) leaves
\* to_array() equal to the previous to_array() with the value appended.
C2_GrowthKeepsOrder ==
    (PushedOk /\ pre.len = CapacityInSlots(PreRing))
        => /\ ret = Unit
           /\ ArrayOf(Cur) = Append(ArrayOf(PreRing), arg)

\* a push grew a full ring whose logical sequence wrapped (head /= 0)
C2_Witness ==
    /\ PushedOk
    /\ pre.len = CapacityInSlots(PreRing)
    /\ pre.head /= 0
    /\ pre.len >= 2
    /\ ArrayOf(PreRing)[1] /= ArrayOf(PreRing)[2]
    /\ ret = Unit

\* C3: growth rule: a push into a full ring makes the capacity
\* max(capacity, 1) * 2 and head 0; a push into a ring that is not full
\* leaves capacity and head unchanged; in both cases length grows by 1.
C3_GrowthRule ==
    PushedOk =>
        /\ pre.len = CapacityInSlots(PreRing) =>
               /\ CapacityInSlots(Cur) =
                      (IF CapacityInSlots(PreRing) = 0 THEN 2
                       ELSE 2 * CapacityInSlots(PreRing))
               /\ Len(data) = 3 * CapacityInSlots(Cur)
               /\ head = 0
        /\ pre.len < CapacityInSlots(PreRing) =>
               /\ Len(data) = Len(pre.data)
               /\ head = pre.head
        /\ len = pre.len + 1

\* a push grew the capacity-0 ring to 2 slots
C3_Witness ==
    /\ PushedOk
    /\ Len(pre.data) = 0
    /\ CapacityInSlots(Cur) = 2
    /\ len = 1

\* C4: pop() and shift() are identical: from every reachable state both
\* return the same value (or both none) and give the same ring, and both
\* remove the front element, never the back.
C4_PopIsShift ==
    /\ Pop(Cur) = Shift(Cur)
    /\ len > 0 =>
        /\ Pop(Cur).ret = Some(Head(ArrayOf(Cur)))
        /\ Shift(Cur).ret = Some(Head(ArrayOf(Cur)))
        /\ ArrayOf(RingOf(Pop(Cur))) = Tail(ArrayOf(Cur))
        /\ ArrayOf(RingOf(Shift(Cur))) = Tail(ArrayOf(Cur))

\* a pop() removed from a ring whose front and back differed, and the ring
\* it left still has a front different from its back
C4_Witness ==
    /\ op = "pop"
    /\ ret.kind = "some"
    /\ ret.val /= ArrayOf(PreRing)[pre.len]
    /\ len >= 2
    /\ ArrayOf(Cur)[1] /= ArrayOf(Cur)[len]

\* C5: pop() and shift() on an empty ring (also of capacity 0) return no
\* value, do not fail, and leave storage, head and length unchanged.
C5_EmptyRemoval ==
    (Removal /\ pre.len = 0)
        => /\ ret = None
           /\ data = pre.data
           /\ head = pre.head
           /\ len = pre.len

\* a shift() on an empty ring of capacity 0
C5_Witness ==
    /\ op = "shift"
    /\ pre.len = 0
    /\ Len(pre.data) = 0
    /\ ret = None

\* C6: after compact() the storage has exactly length * 3 bytes, head is
\* 0, length and to_array() are unchanged, and the i-th logical element is
\* at physical slot i.
C6_CompactPost ==
    op = "compact" =>
        /\ ret = Unit
        /\ Len(data) = len * 3
        /\ CapacityInSlots(Cur) = len
        /\ head = 0
        /\ len = pre.len
        /\ ArrayOf(Cur) = ArrayOf(PreRing)
        /\ \A i \in 0..(len - 1) :
               ReadSlot(data, i * 3) = ArrayOf(PreRing)[i + 1]

\* compact() acted on a ring with spare capacity whose contents wrapped
C6_Witness ==
    /\ op = "compact"
    /\ pre.len >= 2
    /\ pre.len < CapacityInSlots(PreRing)
    /\ pre.head + pre.len > CapacityInSlots(PreRing)
    /\ ArrayOf(PreRing)[1] /= ArrayOf(PreRing)[2]

\* the layout compact() produces
Compacted(r) == r.head = 0 /\ Len(r.data) = r.len * 3

\* C7: compact() is idempotent: from every reachable state the ring after
\* compact(); compact() is the ring after one compact().
C7_CompactIdempotent ==
    /\ Compact(RingOf(Compact(Cur))) = Compact(Cur)
    /\ (op = "compact" /\ Compacted(PreRing)) => Cur = PreRing

\* compact() acted on a ring that was already compacted and not empty,
\* itself reached by compacting a ring with another layout
C7_Witness ==
    /\ op = "compact"
    /\ Compacted(PreRing)
    /\ pre.len >= 2
    /\ ArrayOf(PreRing)[1] /= ArrayOf(PreRing)[2]

\* C8: structural invariant: the storage length is a multiple of 3,
\* 0 <= length <= capacity, and head < capacity whenever capacity > 0.
C8_Structure ==
    /\ Len(data) % 3 = 0
    /\ 0 <= len
    /\ len <= CapacityInSlots(Cur)
    /\ 0 <= head
    /\ CapacityInSlots(Cur) > 0 => head < CapacityInSlots(Cur)

\* a removal wrapped head from the last slot back to slot 0
C8_Witness ==
    /\ Removal
    /\ ret.kind = "some"
    /\ pre.head = CapacityInSlots(PreRing) - 1
    /\ CapacityInSlots(Cur) = 4
    /\ head = 0
    /\ len >= 1

\* C9: precondition violations fail without partial effects: push(v) with
\* v > 0xFFFFFF fails and changes nothing, also on a full ring; get(i)
\* with i >= length fails, also on an empty or capacity-0 ring.
C9_FailFast ==
    /\ (op = "push" /\ arg > MaxValue)
           => /\ ret = Panic
              /\ Cur = PreRing
    /\ (op = "get" /\ arg >= pre.len)
           => /\ ret = Panic
              /\ Cur = PreRing

\* a push of 0x1000000 failed on a full ring that would have grown
C9_Witness ==
    /\ op = "push"
    /\ arg > MaxValue
    /\ pre.len = CapacityInSlots(PreRing)
    /\ pre.len >= 1
    /\ ret = Panic
\* C10: encoding round trip: encoding a value of [0, 2^24 - 1] as 3
\* little-endian bytes and decoding them returns the value, so after
\* push(v) the last element read back by get(length - 1) is v.
\* The round trip of the pure functions is evaluated over the whole range
\* once, in the state after new(); the pushes then exercise it in the ring.
C10_RoundTrip ==
    /\ op = "new" =>
           \A v \in 0..MaxValue :
               Decode(Encode(v)[1], Encode(v)[2], Encode(v)[3]) = v
    /\ PushedOk =>
        /\ \A k \in 1..3 : Encode(arg)[k] \in 0..255
        /\ Decode(Encode(arg)[1], Encode(arg)[2], Encode(arg)[3]) = arg
        /\ ret = Unit
        /\ Get(Cur, len - 1) = arg

\* a value with three different bytes (0xFF8100) was pushed over
\* a slot that held another value and reads back
C10_Witness ==
    /\ PushedOk
    /\ arg = 16744704
    /\ ReadSlot(pre.data, SlotToByte(Cur, head + len - 1)) = 33279
    /\ Get(Cur, len - 1) = arg

\* C11: read operations are pure: to_array(), get(i) with i < length and
\* len() leave storage, head and length unchanged, and to_array() has
\* exactly length elements with to_array()[i] = get(i).
C11_ReadsArePure ==
    /\ (op \in {"to_array", "len"} \/ (op = "get" /\ arg < pre.len))
           => /\ Cur = PreRing
              /\ ret /= Panic
    /\ op = "to_array" =>
           /\ ret.kind = "array"
           /\ Len(ret.arr) = len
           /\ \A i \in 0..(len - 1) : ret.arr[i + 1] = Get(Cur, i)
    /\ op = "len" => ret = Value(pre.len)
    /\ (op = "get" /\ arg < pre.len) => ret = Value(fifo[arg + 1])

\* to_array() returned the contents of a ring that wraps around the end
\* of its storage
C11_Witness ==
    /\ op = "to_array"
    /\ len >= 3
    /\ head + len > CapacityInSlots(Cur)
    /\ ret.arr[1] /= ret.arr[len]
    /\ Cur = PreRing

\* C12: capacity never shrinks except through compact(): after push, pop,
\* shift, get, to_array and len the capacity is at least what it was, and
\* a removal leaves the storage as it was.
C12_NoShrink ==
    /\ op \in {"push", "pop", "shift", "get", "to_array", "len"}
           => CapacityInSlots(Cur) >= CapacityInSlots(PreRing)
    /\ Removal => Len(data) = Len(pre.data)

\* a removal emptied a ring of 4 slots and the 4 slots are still there
C12_Witness ==
    /\ Removal
    /\ ret.kind = "some"
    /\ len = 0
    /\ CapacityInSlots(Cur) = 4
    /\ CapacityInSlots(PreRing) = 4

\* C17 as stated: head is 0 whenever the ring is empty or its capacity is 0.
C17_HeadZeroWhenEmpty ==
    (len = 0 \/ CapacityInSlots(Cur) = 0) => head = 0

\* C17 (amended): head is 0 whenever the capacity is 0, and after new()
\* and compact(); an empty ring with capacity > 0 keeps the head its last
\* removal left, which is below the capacity.
C17_HeadZeroAtCapacityZero ==
    /\ CapacityInSlots(Cur) = 0 => head = 0
    /\ op \in {"new", "compact"} => head = 0
    /\ (len = 0 /\ CapacityInSlots(Cur) > 0)
           => (0 <= head /\ head < CapacityInSlots(Cur))

\* compact() took an empty ring whose head was not 0 to capacity 0
C17_Witness ==
    /\ op = "compact"
    /\ pre.len = 0
    /\ pre.head /= 0
    /\ CapacityInSlots(Cur) = 0
    /\ head = 0

\* the slot of logical index i of ring r
SlotOf(r, i) == (r.head + i) % CapacityInSlots(r)

\* C18: binary layout: for every logical index i < length the 3 bytes at
\* byte offset ((head + i) mod capacity) * 3 are the little-endian bytes
\* of the i-th oldest value present; a push that does not grow writes only
\* the 3 bytes of slot (head + length) mod capacity, which is not a valid
\* slot, and leaves every other byte unchanged.
C18_BinaryLayout ==
    /\ Len(fifo) = len
    /\ \A i \in 0..(len - 1) :
           LET off == SlotOf(Cur, i) * 3
               v == fifo[i + 1]
           IN  /\ data[off + 1] = v % 256
               /\ data[off + 2] = (v \div 256) % 256
               /\ data[off + 3] = (v \div 65536) % 256
    /\ (PushedOk /\ pre.len < CapacityInSlots(PreRing)) =>
           LET slot == SlotOf(PreRing, pre.len)
           IN  /\ Len(data) = Len(pre.data)
               /\ \A i \in 0..(pre.len - 1) : SlotOf(PreRing, i) /= slot
               /\ \A k \in 1..Len(data) :
                      (k - 1) \div 3 /= slot => data[k] = pre.data[k]
               /\ data[slot * 3 + 1] = arg % 256
               /\ data[slot * 3 + 2] = (arg \div 256) % 256
               /\ data[slot * 3 + 3] = (arg \div 65536) % 256

\* a push of 0x010203 that did not grow wrote a slot below head, over the
\* bytes of a value removed earlier
C18_Witness ==
    /\ PushedOk
    /\ arg = 66051
    /\ pre.len >= 1
    /\ pre.len < CapacityInSlots(PreRing)
    /\ SlotOf(PreRing, pre.len) < pre.head
    /\ ReadSlot(pre.data, SlotOf(PreRing, pre.len) * 3) = 16777215
    /\ data[SlotOf(PreRing, pre.len) * 3 + 1] = 3

\* C19: a pop() or shift() on a non-empty ring changes only head and
\* length: head becomes (head + 1) mod capacity (from capacity - 1 it wraps
\* to 0), length decreases by 1, every storage byte is unchanged.
C19_RemovalFrame ==
    (Removal /\ pre.len > 0) =>
        /\ head = (pre.head + 1) % CapacityInSlots(PreRing)
        /\ pre.head = CapacityInSlots(PreRing) - 1 => head = 0
        /\ len = pre.len - 1
        /\ data = pre.data

\* a pop() moved head from the last slot to slot 0 and the bytes of the
\* removed value are still in the last slot
C19_Witness ==
    /\ op = "pop"
    /\ ret.kind = "some"
    /\ ret.val /= 0
    /\ CapacityInSlots(PreRing) >= 2
    /\ pre.head = CapacityInSlots(PreRing) - 1
    /\ head = 0
    /\ ReadSlot(data, pre.head * 3) = ret.val

\* the calls whose preconditions held
PreconditionHeld ==
    \/ PushedOk
    \/ Removal
    \/ op = "get" /\ arg < pre.len
    \/ op \in {"to_array", "compact", "len"}

\* C20: no operation whose preconditions hold fails internally: in every
\* reachable state (also of capacity 0) push(v <= 0xFFFFFF), pop(),
\* shift(), get(i < length), to_array() and compact() evaluate no remainder
\* by a zero capacity and index no byte at or beyond the storage length.
C20_NoInternalFailure ==
    /\ PreconditionHeld => ret /= Panic
    /\ \A v \in Values : Push(Cur, v).ret /= Panic
    /\ Pop(Cur).ret /= Panic
    /\ Shift(Cur).ret /= Panic
    /\ \A i \in 0..(len - 1) : Get(Cur, i) /= PANIC
    /\ ToArray(Cur).ok
    /\ Compact(Cur).ret /= Panic

\* compact() made a ring of capacity 0 out of an empty ring with storage,
\* and push, pop, shift, to_array and compact all succeed from there
C20_Witness ==
    /\ op = "compact"
    /\ ret = Unit
    /\ pre.len = 0
    /\ CapacityInSlots(PreRing) > 0
    /\ CapacityInSlots(Cur) = 0
    /\ Push(Cur, 8421504).ret = Unit
    /\ Get(RingOf(Push(Cur, 8421504)), 0) = 8421504
    /\ Pop(Cur).ret = None
    /\ Shift(Cur).ret = None

\* ---- HoleArray properties ------------------------------------------------
\* the values of pushed whose index (from 0) is not in H, from position k on
RECURSIVE Kept(_, _, _)
Kept(pushed, H, k) ==
    IF k > Len(pushed) THEN <<>>
    ELSE (IF (k - 1) \in H THEN <<>> ELSE <<pushed[k]>>) \o Kept(pushed, H, k + 1)

\* C13: after N pushes on a new array followed by mark_hole(h) for each h
\* of a set H (any order, repeats, indices >= N included), iter_valid()
\* yields exactly the pushed values whose index is not in H, in push order.
C13_IterValidSkipsHoles ==
    hist.ordered =>
        /\ IterValid(hdata) = Kept(hist.pushed, hist.marked, 1)
        /\ op = "iter_valid" => ret = Array(Kept(hist.pushed, hist.marked, 1))

\* iter_valid() after pushes of 7, 8, 9 and marks at 1 and at 4 (out of
\* range)
C13_Witness ==
    /\ op = "iter_valid"
    /\ hist.ordered
    /\ hist.pushed = <<7, 8, 9>>
    /\ hist.marked = {1, 4}
    /\ ret.arr = <<7, 9>>

\* C14: mark_hole(index) with index >= the slot count does not fail and
\* leaves the number of slots and every slot unchanged.
C14_MarkOutOfRange ==
    (op = "mark_hole" /\ arg >= Len(pre.hdata))
        => /\ hdata = pre.hdata
           /\ ret = Unit

\* mark_hole at the index just past the end of an array whose last slot is
\* occupied
C14_Witness ==
    /\ op = "mark_hole"
    /\ Len(pre.hdata) >= 2
    /\ arg = Len(pre.hdata)
    /\ pre.hdata[Len(pre.hdata)] /= Hole
    /\ hdata = pre.hdata

\* C15: after compact() no slot is a hole, the slot count is the number of
\* slots occupied before, the occupied values keep their order, and
\* iter_valid() yields what it yielded before.
C15_HoleCompact ==
    op = "hole_compact" =>
        /\ \A k \in 1..Len(hdata) : hdata[k] /= Hole
        /\ Len(hdata) =
               Cardinality({k \in 1..Len(pre.hdata) : pre.hdata[k] /= Hole})
        /\ \A k \in 1..Len(hdata) : hdata[k] = <<IterValid(pre.hdata)[k]>>
        /\ IterValid(hdata) = IterValid(pre.hdata)

\* compact() removed a hole that lay between two occupied slots
C15_Witness ==
    /\ op = "hole_compact"
    /\ Len(pre.hdata) = 3
    /\ pre.hdata[1] /= Hole
    /\ pre.hdata[2] = Hole
    /\ pre.hdata[3] /= Hole
    /\ pre.hdata[1] /= pre.hdata[3]
    /\ Len(hdata) = 2

\* C16: index stability: mark_hole(i) in range changes only slot i, to a
\* hole, and nothing when slot i is a hole already; push appends one
\* occupied slot and changes no other; so the value pushed k-th (since the
\* last compact) is at index k or slot k is a hole.
C16_IndexStability ==
    /\ (op = "mark_hole" /\ arg < Len(pre.hdata)) =>
           /\ Len(hdata) = Len(pre.hdata)
           /\ hdata[arg + 1] = Hole
           /\ \A k \in 1..Len(hdata) : k /= arg + 1 => hdata[k] = pre.hdata[k]
           /\ pre.hdata[arg + 1] = Hole => hdata = pre.hdata
    /\ op = "hole_push" =>
           /\ Len(hdata) = Len(pre.hdata) + 1
           /\ hdata[Len(hdata)] = <<arg>>
           /\ \A k \in 1..Len(pre.hdata) : hdata[k] = pre.hdata[k]
    /\ Len(hdata) = Len(hist.pushed)
    /\ \A k \in 1..Len(hdata) : hdata[k] \in {Hole, <<hist.pushed[k]>>}

\* mark_hole(0) on three occupied slots left the values pushed second and
\* third at indices 1 and 2
C16_Witness ==
    /\ op = "mark_hole"
    /\ arg = 0
    /\ pre.hdata = <<<<7>>, <<8>>, <<9>>>>
    /\ hdata = <<Hole, <<8>>, <<9>>>>

====
